---- MODULE Spec2Model ----
(***************************************************************************)
(* Ranking engine (backend/services/evaluation_service.py) and the        *)
(* evaluate_task request handler (backend/app.py) of task-based-hiring.   *)
(*                                                                         *)
(* Percentiles are kept in tenths (100.0 is 1000): the code rounds to one *)
(* decimal place.  A submission dict is a record; the dicts of one call   *)
(* are the sequence th[t].subs and are named by their 1-based position in *)
(* the input, so that the BST and the returned list alias the input dicts *)
(* as they do in Python.                                                   *)
(***************************************************************************)
EXTENDS Integers, Sequences, FiniteSets, TLC

\* Largest input of a direct rank_submissions call.
MaxN == 5
\* Largest ranking size of the percentile loop taken on its own.
MaxTotal == 1001

\* Largest number of submissions of a task in the database.
MaxSubs == 3
\* Number of submissions of each task under overlapping requests.
ConcSubs == 2
\* Largest number of frames handed to _select_interactive_frames directly.
MaxFrames == 7
\* Largest num_frames tried besides the default.
MaxTarget == 3

Threads == {"t1", "t2"}
Tasks == {"T1", "T2"}

\* Python None for rank / percentile (tenths) / feedback / pros_cons.
NoRank == 0
NoPercentile == -1
NoText == <<>>

\* applicant ids and names of the submissions a caller passes, in input order
IdPool == <<"a", "b", "c", "d", "e", "f", "g">>
NamePool == <<"Ann", "Bob", "Cy", "Di", "Ed", "Flo", "Gus">>

VARIABLES
    svc,          \* the EvaluationService object
    th,           \* per thread: the locals of the call in progress
    calls,        \* every llm_service.evaluate_submissions invocation, in order
    progressLog,  \* every message handed to a progress callback, in order
    evaluation_progress,  \* app.py's global progress store, keyed by task id
    db,           \* the database: tasks, submissions table, users' portfolios
    pct,          \* the percentile loop of rank_submissions taken on its own
    llm,          \* one LLMService.evaluate_submissions call
    fx            \* one frame extraction call

vars == <<svc, th, calls, progressLog, evaluation_progress, db, pct, llm, fx>>

-----------------------------------------------------------------------------
(* Values *)

EmptyCache == [k \in {} |-> <<>>]

\* ComparisonResult as LLMService.evaluate_submissions returns it; the texts of
\* the n-th invocation are tagged with n and the role they are about.
LLMResult(n, winner) ==
    [winner      |-> winner,
     feedback_a  |-> <<"feedback", n, "A">>,
     feedback_b  |-> <<"feedback", n, "B">>,
     pros_cons_a |-> <<"pros_cons", n, "A">>,
     pros_cons_b |-> <<"pros_cons", n, "B">>]

NoResult == [winner |-> "none", feedback_a |-> NoText, feedback_b |-> NoText,
             pros_cons_a |-> NoText, pros_cons_b |-> NoText]

\* A submission dict as a caller hands it in: position k of the pool; prior
\* says whether it still carries the results of an earlier evaluation.
\* (an old dict also has the 'score' key of an earlier version of the service).
Submission(k, prior) ==
    IF prior
    THEN [id         |-> IdPool[k],
          name       |-> NamePool[k],
          rank       |-> k,
          percentile |-> 500,
          feedback   |-> <<"feedback", 0, "old">>,
          pros_cons  |-> <<"pros_cons", 0, "old">>,
          key_frames |-> <<IdPool[k], 0>>,
          score      |-> 50]
    ELSE [id         |-> IdPool[k],
          name       |-> NamePool[k],
          rank       |-> NoRank,
          percentile |-> NoPercentile,
          feedback   |-> NoText,
          pros_cons  |-> NoText,
          key_frames |-> <<IdPool[k], 0>>]

InputList(n, prior) == [k \in 1..n |-> Submission(k, prior)]

Message(kind, a, b, n, total) ==
    [kind |-> kind, a |-> a, b |-> b, n |-> n, total |-> total]

\* what a caller keeps of a call it is about to repeat on a fresh service:
\* the comparator's answers (script), the returned order, the dicts and the
\* cache the call left, and whether it returned
NoTwin == [script |-> <<>>, ranked |-> <<>>, subs |-> <<>>,
           cache |-> EmptyCache, pc |-> "none"]

IdleLocals ==
    [pc |-> "idle", op |-> "none", ncalls |-> 0, cb |-> "none",
     task |-> "none", j |-> 0, exc |-> "none", response |-> 0,
     subs |-> <<>>, input |-> <<>>, i |-> 0, node |-> 0,
     left |-> <<>>, right |-> <<>>, hist |-> <<>>, ranked |-> <<>>,
     first |-> 0, firstmsg |-> 0, cache0 |-> EmptyCache, twin |-> NoTwin]

-----------------------------------------------------------------------------
(* Pure functions *)

\* round(x) to the nearest integer, ties to even, for x = num/den >= 0.
RoundHalfEven(num, den) ==
    LET q == num \div den
        r == num % den
    IN  IF 2 * r < den THEN q
        ELSE IF 2 * r > den THEN q + 1
        ELSE IF q % 2 = 0 THEN q ELSE q + 1

\* Percentile computed from the 1-based position
PercentileOffByOne(total, idx) == RoundHalfEven(1000 * (total - idx - 1), total)

\* round(100 * (total - idx) / total, 1), in tenths.  Python rounds the double
\* nearest to the quotient; that differs from rounding the quotient itself only
\* at an exact tie that is no dyadic fraction, which needs total >= 2000.
Percentile(total, idx) == RoundHalfEven(1000 * (total - idx), total)

\* key = f"{sub_a['id']}_{sub_b['id']}"
CacheKey(sub_a, sub_b) == sub_a.id \o "_" \o sub_b.id

\* _compare_submissions that never stores its result
CompareNoStore(cache, sub_a, sub_b, n, out) ==
    LET key == CacheKey(sub_a, sub_b)
    IN  IF key \in DOMAIN cache
        THEN [raised |-> FALSE, invoked |-> FALSE, result |-> cache[key],
              cache |-> cache]
        ELSE [raised |-> out = "raise", invoked |-> TRUE,
              result |-> IF out = "raise" THEN NoResult ELSE LLMResult(n, out),
              cache |-> cache]

\* _compare_submissions that catches the comparator's exception and answers 'B'
CompareSwallow(cache, sub_a, sub_b, n, out) ==
    LET key == CacheKey(sub_a, sub_b)
    IN  IF key \in DOMAIN cache
        THEN [raised |-> FALSE, invoked |-> FALSE, result |-> cache[key],
              cache |-> cache]
        ELSE IF out = "raise"
        THEN [raised |-> FALSE, invoked |-> TRUE, result |-> LLMResult(n, "B"),
              cache |-> cache]
        ELSE [raised |-> FALSE, invoked |-> TRUE, result |-> LLMResult(n, out),
              cache |-> [k \in DOMAIN cache \cup {key} |->
                            IF k = key THEN LLMResult(n, out) ELSE cache[k]]]

\* _compare_submissions: the cached result when the key is cached, otherwise
\* one comparator invocation (the n-th), which answers out or raises.
CompareSubmissions(cache, sub_a, sub_b, n, out) ==
    LET key == CacheKey(sub_a, sub_b)
    IN  IF key \in DOMAIN cache
        THEN [raised |-> FALSE, invoked |-> FALSE, result |-> cache[key],
              cache |-> cache]
        ELSE IF out = "raise"
        THEN [raised |-> TRUE, invoked |-> TRUE, result |-> NoResult,
              cache |-> cache]
        ELSE [raised |-> FALSE, invoked |-> TRUE, result |-> LLMResult(n, out),
              cache |-> [k \in DOMAIN cache \cup {key} |->
                            IF k = key THEN LLMResult(n, out) ELSE cache[k]]]

\* the answers of a comparator that repeats what it answered before: the
\* entries of script about the ordered pair (sub_a, sub_b)
Scripted(script, sub_a, sub_b) ==
    {k \in 1..Len(script) :
        script[k].ida = sub_a.id /\ script[k].idb = sub_b.id}

\* what the comparator can do for a pair, as [out, n]: nothing when the pair is
\* cached; otherwise it answers 'A' or 'B' or raises, this being invocation
\* number n; a comparator that repeats its earlier answers gives the pair the
\* outcome and the result it gave it then
Outcomes(cache, sub_a, sub_b, script, n) ==
    IF CacheKey(sub_a, sub_b) \in DOMAIN cache
    THEN {[out |-> "cached", n |-> n]}
    ELSE IF Scripted(script, sub_a, sub_b) # {}
    THEN {[out |-> script[k].out, n |-> script[k].n] :
              k \in Scripted(script, sub_a, sub_b)}
    ELSE {[out |-> w, n |-> n] : w \in {"A", "B", "raise"}}

\* a traversal that visits the left subtree first
RECURSIVE InorderForward(_, _, _)
InorderForward(left, right, node) ==
    IF node = 0 THEN <<>>
    ELSE InorderForward(left, right, left[node])
         \o <<node>>
         \o InorderForward(left, right, right[node])

\* _inorder_traversal_reverse: right subtree, node, left subtree.
RECURSIVE InorderReverse(_, _, _)
InorderReverse(left, right, node) ==
    IF node = 0 THEN <<>>
    ELSE InorderReverse(left, right, right[node])
         \o <<node>>
         \o InorderReverse(left, right, left[node])

\* del d[key]
Del(d, key) == [f \in DOMAIN d \ {key} |-> d[f]]

\* the percentile loop of rank_submissions over the ranked list: the dict at
\* 0-based position idx gets its percentile and loses its 'score' key
AssignPercentiles(subs, ranked) ==
    [k \in DOMAIN subs |->
        IF \E p \in 1..Len(ranked) : ranked[p] = k
        THEN LET p == CHOOSE p \in 1..Len(ranked) : ranked[p] = k
                 sub == [subs[k] EXCEPT
                            !.percentile = Percentile(Len(ranked), p - 1)]
             IN  IF "score" \in DOMAIN sub THEN Del(sub, "score") ELSE sub
        ELSE subs[k]]

\* a callback that is never called
EmitNothing(log, cb, msg) == log

\* progress_callback(message): nothing when no callback was supplied; the
\* message is printed (evaluate_task's closure) or collected (a direct caller's)
Emit(log, cb, msg) ==
    IF cb = "none" THEN log ELSE Append(log, [sink |-> cb, msg |-> msg])

\* d[key] = value on a dict
Put(d, key, value) ==
    [k \in DOMAIN d \cup {key} |-> IF k = key THEN value ELSE d[k]]

\* evaluate_task's closure progress_callback also stores the message under the
\* task id it closes over: evaluation_progress[task_id] = {...}
EmitProgress(ep, cb, msg) ==
    IF cb \in Tasks THEN Put(ep, cb, [message |-> msg, completed |-> FALSE])
    ELSE ep

-----------------------------------------------------------------------------
(* rank_submissions *)

InitService ==
    [comparison_cache |-> EmptyCache, progress_callback |-> "none",
     current_submission |-> 0, total_submissions |-> 0, comparison_count |-> 0]

\* the early return taken for the empty input only
IsTrivialEmptyOnly(subs) == Len(subs) < 1

\* if len(submissions) <= 1: nothing to compare
IsTrivial(subs) == Len(subs) <= 1

\* rank_submissions up to the first loop test of _bst_sort_submissions, entered
\* by thread t whose locals are L, on the service in state S, with the
\* submissions subs and the callback cb
RankEnter(t, L, S, subs, cb) ==
    LET n == Len(subs)
        base == [L EXCEPT !.subs = subs, !.input = subs, !.cb = cb,
                          !.hist = <<>>, !.ranked = <<>>,
                          !.first = Len(calls), !.firstmsg = Len(progressLog),
                          !.cache0 = S.comparison_cache,
                          !.left = [k \in 1..n |-> 0],
                          !.right = [k \in 1..n |-> 0],
                          !.i = 0, !.node = 0, !.exc = "none"]
    IN  IF IsTrivial(subs)
        THEN /\ th' = [th EXCEPT ![t] =
                        [base EXCEPT !.pc = "returned",
                                     !.ranked = [k \in 1..n |-> k],
                                     !.subs = [k \in 1..n |->
                                        [subs[k] EXCEPT !.percentile = 1000]]]]
             /\ svc' = S
             /\ UNCHANGED <<progressLog, evaluation_progress>>
        ELSE /\ svc' = [S EXCEPT !.progress_callback = cb,
                                   !.current_submission = 0,
                                   !.total_submissions = n,
                                   !.comparison_count = 0]
             /\ progressLog' = Emit(progressLog, cb,
                                    Message("submission", subs[1].name, "", 1, n))
             /\ evaluation_progress' =
                    EmitProgress(evaluation_progress, cb,
                                 Message("submission", subs[1].name, "", 1, n))
             /\ th' = [th EXCEPT ![t] = [base EXCEPT !.pc = "loop", !.i = 2]]

\* a direct call of rank_submissions by a single-threaded caller, on a fresh
\* EvaluationService
CallRank(t) ==
    /\ t = "t1"
    /\ th[t].pc = "idle"
    /\ th[t].op = "none"
    /\ \E n \in 0..MaxN, prior \in BOOLEAN, cb \in {"none", "direct"} :
          RankEnter(t, [th[t] EXCEPT !.op = "rank", !.ncalls = 1], svc,
                    InputList(n, prior), cb)
    /\ UNCHANGED <<calls, db, pct, llm, fx>>

\* the caller ranks the same submissions again (the same dicts, as the first
\* call left them), in the same order and with the same callback, on the same
\* EvaluationService and without clearing its cache; it keeps what the first
\* call returned (the comparator is not bound to its earlier answers)
CallRankAgain(t) ==
    /\ t = "t1"
    /\ th[t].pc \in {"returned", "raised"}
    /\ th[t].op = "rank"
    /\ th[t].ncalls = 1
    /\ RankEnter(t,
                 [th[t] EXCEPT !.ncalls = 2,
                               !.twin = [NoTwin EXCEPT !.ranked = th[t].ranked,
                                                       !.subs = th[t].subs,
                                                       !.pc = th[t].pc]],
                 svc, th[t].subs, th[t].cb)
    /\ UNCHANGED <<calls, db, pct, llm, fx>>

\* the caller ranks the same submissions (fresh copies of the dicts it
\* passed first) on a new EvaluationService whose cache holds what the first
\* one's held at the start, with a comparator that answers each pair as it did
\* in the first call, and supplies a callback if and only if it supplied none
\* the first time
CallRankTwin(t) ==
    /\ t = "t1"
    /\ th[t].pc \in {"returned", "raised"}
    /\ th[t].op = "rank"
    /\ th[t].ncalls = 1
    /\ RankEnter(t,
                 [th[t] EXCEPT !.ncalls = 2,
                               !.twin = [script |-> SubSeq(calls, th[t].first + 1,
                                                           Len(calls)),
                                         ranked |-> th[t].ranked,
                                         subs   |-> th[t].subs,
                                         cache  |-> svc.comparison_cache,
                                         pc     |-> th[t].pc]],
                 [InitService EXCEPT !.comparison_cache = th[t].cache0],
                 th[t].input,
                 IF th[t].cb = "none" THEN "direct" ELSE "none")
    /\ UNCHANGED <<calls, db, pct, llm, fx>>

\* the loop of _bst_sort_submissions: the next submission to insert
LoopNext(t) ==
    /\ th[t].pc = "loop"
    /\ th[t].i <= Len(th[t].subs)
    /\ svc' = [svc EXCEPT !.current_submission = th[t].i]
    /\ LET msg == Message("submission", th[t].subs[th[t].i].name, "",
                          th[t].i, svc.total_submissions)
       IN  /\ progressLog' = Emit(progressLog, svc.progress_callback, msg)
           /\ evaluation_progress' =
                  EmitProgress(evaluation_progress, svc.progress_callback, msg)
    /\ th' = [th EXCEPT ![t].pc = "insert", ![t].node = 1]
    /\ UNCHANGED <<calls, db, pct, llm, fx>>

\* an insertion that recurses on the node it was given instead of on its child
DescendFromRoot(left, right, sub, root, winner) ==
    IF winner = "A"
    THEN IF right[root] = 0
         THEN [attach |-> TRUE, left |-> left,
               right |-> [right EXCEPT ![root] = sub], node |-> 0]
         ELSE [attach |-> FALSE, left |-> left, right |-> right, node |-> root]
    ELSE IF left[root] = 0
         THEN [attach |-> TRUE, left |-> [left EXCEPT ![root] = sub],
               right |-> right, node |-> 0]
         ELSE [attach |-> FALSE, left |-> left, right |-> right, node |-> root]

\* an insertion that attaches without testing whether the child is free
DescendOverwrite(left, right, sub, root, winner) ==
    IF winner = "A"
    THEN [attach |-> TRUE, left |-> left,
          right |-> [right EXCEPT ![root] = sub], node |-> 0]
    ELSE [attach |-> TRUE, left |-> [left EXCEPT ![root] = sub],
          right |-> right, node |-> 0]

\* an insertion that puts the winner of the comparison on the left
DescendSwapped(left, right, sub, root, winner) ==
    IF winner = "B"
    THEN IF right[root] = 0
         THEN [attach |-> TRUE, left |-> left,
               right |-> [right EXCEPT ![root] = sub], node |-> 0]
         ELSE [attach |-> FALSE, left |-> left, right |-> right,
               node |-> right[root]]
    ELSE IF left[root] = 0
         THEN [attach |-> TRUE, left |-> [left EXCEPT ![root] = sub],
               right |-> right, node |-> 0]
         ELSE [attach |-> FALSE, left |-> left, right |-> right,
               node |-> left[root]]

\* where _insert_into_bst puts the new submission after a comparison with the
\* node root that winner decided: [attach, left, right, node]
Descend(left, right, sub, root, winner) ==
    IF winner = "A"
    THEN IF right[root] = 0
         THEN [attach |-> TRUE, left |-> left,
               right |-> [right EXCEPT ![root] = sub], node |-> 0]
         ELSE [attach |-> FALSE, left |-> left, right |-> right,
               node |-> right[root]]
    ELSE IF left[root] = 0
         THEN [attach |-> TRUE, left |-> [left EXCEPT ![root] = sub],
               right |-> right, node |-> 0]
         ELSE [attach |-> FALSE, left |-> left, right |-> right,
               node |-> left[root]]

\* feedback stores that keep a text that is already set
StoreFeedbackOnce(subs, sub, root, result) ==
    [subs EXCEPT ![sub].feedback = IF @ = NoText THEN result.feedback_a ELSE @,
                 ![sub].pros_cons = IF @ = NoText THEN result.pros_cons_a ELSE @,
                 ![root].feedback = IF @ = NoText THEN result.feedback_b ELSE @,
                 ![root].pros_cons = IF @ = NoText THEN result.pros_cons_b ELSE @]

\* feedback stores made only when a progress callback is set
StoreFeedbackUnderCallback(subs, sub, root, result) ==
    IF svc.progress_callback = "none" THEN subs
    ELSE [subs EXCEPT ![sub].feedback = result.feedback_a,
                      ![sub].pros_cons = result.pros_cons_a,
                      ![root].feedback = result.feedback_b,
                      ![root].pros_cons = result.pros_cons_b]

\* the feedback stores of _insert_into_bst: the new submission takes the texts
\* of role A, the node's submission those of role B
StoreFeedback(subs, sub, root, result) ==
    [subs EXCEPT ![sub].feedback = result.feedback_a,
                 ![sub].pros_cons = result.pros_cons_a,
                 ![root].feedback = result.feedback_b,
                 ![root].pros_cons = result.pros_cons_b]

\* the node's submission handed over in role A
RoleAOfNode(sub, root) == root

\* which dict _insert_into_bst hands to _compare_submissions in which role
RoleA(sub, root) == sub
RoleB(sub, root) == root

\* one invocation of _insert_into_bst (one level of its recursion)
InsertStep(t) ==
    LET L == th[t]
        sub == L.i
        root == L.node
        a == RoleA(sub, root)
        b == RoleB(sub, root)
        count == svc.comparison_count + 1
    IN
    /\ L.pc = "insert"
    /\ \E o \in Outcomes(svc.comparison_cache, L.subs[a], L.subs[b],
                          L.twin.script, Len(calls) + 1) :
        LET out == o.out
            c == CompareSubmissions(svc.comparison_cache, L.subs[a], L.subs[b],
                                    o.n, out)
            d == Descend(L.left, L.right, sub, root, c.result.winner)
            msg == Message("compare", L.subs[sub].name, L.subs[root].name,
                           count, 0)
        IN
        /\ progressLog' = Emit(progressLog, svc.progress_callback, msg)
        /\ evaluation_progress' =
              EmitProgress(evaluation_progress, svc.progress_callback, msg)
        /\ calls' = IF out = "cached" THEN calls
                    ELSE Append(calls, [t |-> t, a |-> a, b |-> b,
                                        ida |-> L.subs[a].id, idb |-> L.subs[b].id,
                                        frames_a |-> L.subs[a].key_frames,
                                        frames_b |-> L.subs[b].key_frames,
                                        msgs |-> Len(progressLog'),
                                        out |-> out, n |-> o.n,
                                        raised |-> out = "raise"])
        /\ svc' = [svc EXCEPT !.comparison_count = count,
                              !.comparison_cache = c.cache]
        /\ IF c.raised
           THEN th' = [th EXCEPT ![t].pc = "raised", ![t].exc = "comparator"]
           ELSE th' = [th EXCEPT
                  ![t].subs = StoreFeedback(L.subs, sub, root, c.result),
                  ![t].hist = Append(L.hist,
                                [a |-> a, b |-> b, winner |-> c.result.winner,
                                 invoked |-> c.invoked, result |-> c.result]),
                  ![t].left = d.left,
                  ![t].right = d.right,
                  ![t].node = d.node,
                  ![t].i = IF d.attach THEN sub + 1 ELSE sub,
                  ![t].pc = IF d.attach THEN "loop" ELSE "insert"]
    /\ UNCHANGED <<db, pct, llm, fx>>

\* the end of _bst_sort_submissions and the percentile loop of rank_submissions
RankFinish(t) ==
    /\ th[t].pc = "loop"
    /\ th[t].i > Len(th[t].subs)
    /\ LET ranked == InorderReverse(th[t].left, th[t].right, 1)
       IN  th' = [th EXCEPT ![t].ranked = ranked,
                            ![t].subs = AssignPercentiles(th[t].subs, ranked),
                            ![t].pc = "returned"]
    /\ UNCHANGED <<svc, calls, progressLog, evaluation_progress, db, pct, llm, fx>>

-----------------------------------------------------------------------------
(* The database and evaluate_task *)

\* ids of the submissions of each task, in the order they were created
TaskIdPool == [T1 |-> <<"a", "b", "c", "d", "e">>,
               T2 |-> <<"p", "q", "r", "s", "u">>]
EmailPool == <<"ann@x", "bob@x", "cy@x", "di@x", "ed@x">>

EmptyDb == [tasks |-> {}, submissions |-> <<>>, portfolio |-> [e \in {} |-> <<>>]]

\* the row create_submission inserts for the k-th applicant of a task
NewRow(task, k) ==
    [id              |-> TaskIdPool[task][k],
     task_id         |-> task,
     applicant_email |-> EmailPool[k],
     name            |-> NamePool[k],
     key_frames      |-> <<TaskIdPool[task][k], 0>>,
     rank            |-> NoRank,
     percentile      |-> NoPercentile,
     feedback        |-> NoText,
     pros_cons       |-> NoText,
     status          |-> "pending"]

\* Database.get_submissions: the rows of the task, in table order.  The JSON
\* columns come back as they were stored: json.loads(json.dumps(x)) is x for
\* the lists and None held here, and a NULL pros_cons is read as None.
GetSubmissions(d, task) ==
    LET OfTask(r) == r.task_id = task
    IN  SelectSeq(d.submissions, OfTask)

\* Database.update_submission: the given columns of the row with that id
UpdateSubmission(d, id, updates) ==
    [d EXCEPT !.submissions =
        [r \in DOMAIN @ |->
            IF @[r].id = id
            THEN [f \in DOMAIN @[r] |->
                    IF f \in DOMAIN updates THEN updates[f] ELSE @[r][f]]
            ELSE @[r]]]

\* Database.update_user_portfolio: append the entry when the user exists
UpdateUserPortfolio(d, email, entry) ==
    IF email \in DOMAIN d.portfolio
    THEN [d EXCEPT !.portfolio[email] = Append(@, entry)]
    ELSE d

\* the loop that clears the previous rankings of the fetched submissions
RECURSIVE ClearRankings(_, _, _)
ClearRankings(d, subs, k) ==
    IF k > Len(subs) THEN d
    ELSE ClearRankings(
            UpdateSubmission(d, subs[k].id,
                [status |-> "evaluating", rank |-> NoRank,
                 percentile |-> NoPercentile, feedback |-> NoText,
                 pros_cons |-> NoText]),
            subs, k + 1)

\* Database.delete_task: the task, its submissions and the portfolio entries
\* of every applicant that name the task are removed
DeleteTask(d, task) ==
    LET OfOther(r) == r.task_id # task
    IN  [tasks       |-> d.tasks \ {task},
         submissions |-> SelectSeq(d.submissions, OfOther),
         portfolio   |-> [e \in DOMAIN d.portfolio |->
                              SelectSeq(d.portfolio[e], OfOther)]]

\* DELETE /api/tasks/<task_id> for an existing task, handled while no
\* evaluate_task request is in progress
DeleteRequest ==
    /\ \A u \in Threads : th[u].pc \in {"idle", "responded"}
    /\ \E task \in db.tasks : db' = DeleteTask(db, task)
    /\ UNCHANGED <<svc, th, calls, progressLog, evaluation_progress, pct, llm, fx>>

\* no other request is being handled
Serial(t) == \A u \in Threads \ {t} : th[u].pc \in {"idle", "responded"}

\* a validation that refuses the task without submissions only
TooFewNoneOnly(submissions) == Len(submissions) < 1

\* if len(submissions) < 2: 'Need at least 2 submissions to evaluate'
TooFew(submissions) == Len(submissions) < 2

\* evaluate_task up to the try block: look the task up, fetch its
\* submissions, refuse fewer than 2, start the progress entry and clear the
\* previous rankings
EvalStart(t) ==
    /\ th[t].pc = "idle"
    /\ th[t].op = "none"
    /\ \E task \in Tasks \cup {"T0"} :
        LET submissions == GetSubmissions(db, task)
            L == [th[t] EXCEPT !.op = "evaluate", !.task = task]
        IN  IF task \notin db.tasks
            THEN /\ th' = [th EXCEPT ![t] =
                            [L EXCEPT !.pc = "responded", !.response = 404]]
                 /\ UNCHANGED <<db, evaluation_progress>>
            ELSE IF TooFew(submissions)
            THEN /\ th' = [th EXCEPT ![t] =
                            [L EXCEPT !.pc = "responded", !.response = 400]]
                 /\ UNCHANGED <<db, evaluation_progress>>
            ELSE /\ evaluation_progress' =
                        Put(evaluation_progress, task,
                            [message |-> Message("starting", "", "", 0, 0),
                             completed |-> FALSE])
                 /\ db' = ClearRankings(db, submissions, 1)
                 /\ th' = [th EXCEPT ![t] =
                            [L EXCEPT !.pc = "extract", !.subs = submissions,
                                      !.input = submissions, !.j = 1]]
    /\ UNCHANGED <<svc, calls, progressLog, pct, llm, fx>>

\* one round of the frame re-extraction loop: extract_key_frames replaces the
\* frames of submission j (or raises), the dict and the row take the new list
EvalExtractOne(t) ==
    LET L == th[t]
        sub == L.subs[L.j]
        msg == Message("extract", sub.name, "", L.j, Len(L.subs))
        new_key_frames == <<sub.id, sub.key_frames[2] + 1>>
    IN
    /\ L.pc = "extract"
    /\ L.j <= Len(L.subs)
    /\ progressLog' = Emit(progressLog, L.task, msg)
    /\ evaluation_progress' = EmitProgress(evaluation_progress, L.task, msg)
    /\ \/ /\ th' = [th EXCEPT ![t].pc = "raised", ![t].exc = "extract"]
          /\ UNCHANGED db
       \/ /\ th' = [th EXCEPT ![t].subs[L.j].key_frames = new_key_frames,
                              ![t].j = L.j + 1]
          /\ db' = UpdateSubmission(db, sub.id, [key_frames |-> new_key_frames])
    /\ UNCHANGED <<svc, calls, pct, llm, fx>>

\* a request that goes on to rank with the cache as it found it
ClearCacheSkipped(S) == S

\* evaluation_service.comparison_cache = {}
ClearCache(S) == [S EXCEPT !.comparison_cache = EmptyCache]

\* evaluate_task after the extraction loop: the cache is cleared and
\* rank_submissions is entered with the request's progress callback
EvalRank(t) ==
    /\ th[t].pc = "extract"
    /\ th[t].j > Len(th[t].subs)
    /\ RankEnter(t, [th[t] EXCEPT !.ncalls = 1], ClearCache(svc),
                 th[t].subs, th[t].task)
    /\ UNCHANGED <<calls, db, pct, llm, fx>>

\* the loop that stores the ranking: the row of the submission at 0-based
\* position idx, and an entry appended to its applicant's portfolio
RECURSIVE StoreRanking(_, _, _, _, _)
StoreRanking(d, subs, ranked, task, p) ==
    IF p > Len(ranked) THEN d
    ELSE LET sub == subs[ranked[p]]
             updated == UpdateSubmission(d, sub.id,
                            [rank |-> p, percentile |-> sub.percentile,
                             feedback |-> sub.feedback,
                             pros_cons |-> sub.pros_cons,
                             status |-> "completed"])
             entry == [task_id |-> task, submission_id |-> sub.id,
                       rank |-> p, total_submissions |-> Len(subs),
                       percentile |-> sub.percentile,
                       feedback |-> sub.feedback, pros_cons |-> sub.pros_cons]
         IN  StoreRanking(UpdateUserPortfolio(updated, sub.applicant_email, entry),
                          subs, ranked, task, p + 1)

\* evaluate_task after rank_submissions returned: store the ranking, mark the
\* progress entry completed, answer 200
EvalPersist(t) ==
    /\ th[t].pc = "returned"
    /\ th[t].op = "evaluate"
    /\ db' = StoreRanking(db, th[t].subs, th[t].ranked, th[t].task, 1)
    /\ evaluation_progress' =
          Put(evaluation_progress, th[t].task,
              [message |-> Message("completed", "", "", 0, 0), completed |-> TRUE])
    /\ th' = [th EXCEPT ![t].pc = "responded", ![t].response = 200]
    /\ UNCHANGED <<svc, calls, progressLog, pct, llm, fx>>

\* the except branch of evaluate_task: mark the progress entry failed, answer 500
EvalExcept(t) ==
    /\ th[t].pc = "raised"
    /\ th[t].op = "evaluate"
    /\ evaluation_progress' =
          Put(evaluation_progress, th[t].task,
              [message |-> Message("failed", th[t].exc, "", 0, 0),
               completed |-> TRUE])
    /\ th' = [th EXCEPT ![t].pc = "responded", ![t].response = 500]
    /\ UNCHANGED <<svc, calls, progressLog, db, pct, llm, fx>>

-----------------------------------------------------------------------------
(* The percentile loop on its own *)

NoPct == [total |-> 0, idx |-> 0, prev |-> NoPercentile, cur |-> NoPercentile]

\* for idx, sub in enumerate(ranked): sub['percentile'] = round(...)
PercentileStep ==
    /\ pct.total > 0
    /\ pct.idx < pct.total
    /\ pct' = [total |-> pct.total, idx |-> pct.idx + 1, prev |-> pct.cur,
               cur |-> Percentile(pct.total, pct.idx)]
    /\ UNCHANGED <<svc, th, calls, progressLog, evaluation_progress, db, llm, fx>>

-----------------------------------------------------------------------------
(* LLMService.evaluate_submissions (backend/services/llm_service.py) *)

\* max_retries of _make_api_call_with_retry
MaxRetries == 3

RequiredFields ==
    {"winner", "feedback_a", "feedback_b", "pros_cons_a", "pros_cons_b"}

\* What response.json() can be.  shape says whether it is a dict with a text
\* block, a dict without 'content', a dict whose 'content' is an empty list, or
\* no dict at all; for a text: open says whether it contains a '{', json what
\* json.loads makes of the part from the first '{' to the last '}', fields
\* which of the required fields the parsed object has, winner its 'winner',
\* names_a and better whether the text contains name_a and the word 'better'.
Bodies ==
    [shape   : {"text", "no_content", "empty_content", "not_dict"},
     open    : BOOLEAN,
     json    : {"invalid", "object"},
     fields  : {"all", "no_winner", "none"},
     winner  : {"A", "B", "tie", "null"},
     names_a : BOOLEAN,
     better  : BOOLEAN]

NoBody == [shape |-> "none", open |-> FALSE, json |-> "invalid",
           fields |-> "none", winner |-> "null", names_a |-> FALSE,
           better |-> FALSE]

\* the text '' that response.get('content', [{}])[0].get('text', '') is when
\* the response has no 'content'
EmptyText == [NoBody EXCEPT !.shape = "text"]

NoLlm == [pc |-> "idle", args |-> "ok", attempt |-> 0, posts |-> 0,
          sleeps |-> <<>>, exc |-> "none", response |-> NoBody,
          result |-> [none |-> TRUE]]

\* _fallback_evaluation; w is what random.random() > 0.5 decides
FallbackEvaluation(w) ==
    [winner      |-> w,
     feedback_a  |-> <<"fallback", "feedback_a">>,
     feedback_b  |-> <<"fallback", "feedback_b">>,
     pros_cons_a |-> <<"fallback", "pros_cons_a">>,
     pros_cons_b |-> <<"fallback", "pros_cons_b">>]

\* _extract_evaluation_from_text
ExtractEvaluationFromText(text) ==
    [winner      |-> IF text.names_a /\ text.better THEN "A" ELSE "B",
     feedback_a  |-> <<"text", "feedback_a">>,
     feedback_b  |-> <<"text", "feedback_b">>,
     pros_cons_a |-> <<"text", "pros_cons_a">>,
     pros_cons_b |-> <<"text", "pros_cons_b">>]

\* the object json.loads returned, handed back as it is
ParsedEvaluation(text) ==
    [winner      |-> text.winner,
     feedback_a  |-> <<"provider", "feedback_a">>,
     feedback_b  |-> <<"provider", "feedback_b">>,
     pros_cons_a |-> <<"provider", "pros_cons_a">>,
     pros_cons_b |-> <<"provider", "pros_cons_b">>]

\* _parse_evaluation_response; args says whether name_a is a string (the
\* heuristic calls name_a.lower()), w is the fallback's random winner.  Every
\* exception raised in it is caught in it and answered by the fallback.
ParseEvaluationResponse(response, args, w) ==
    IF response.shape \in {"not_dict", "empty_content"}
    THEN FallbackEvaluation(w)
    ELSE LET text == IF response.shape = "no_content" THEN EmptyText
                     ELSE response
             heuristic == IF args = "name_none" THEN FallbackEvaluation(w)
                          ELSE ExtractEvaluationFromText(text)
         IN  IF text.open
             THEN IF text.json = "invalid" THEN FallbackEvaluation(w)
                  ELSE IF text.fields = "all" THEN ParsedEvaluation(text)
                  ELSE heuristic
             ELSE heuristic

\* except Exception: which of the exceptions evaluate_submissions catches
Catches(exc) == exc \in {"TypeError", "RequestException", "OtherError"}

\* evaluate_submissions up to the API call: the prompt and the content list;
\* slicing frames that are None raises TypeError
LLMPrepare ==
    /\ llm.pc = "call"
    /\ llm' = IF llm.args = "frames_none"
              THEN [llm EXCEPT !.pc = "except", !.exc = "TypeError"]
              ELSE [llm EXCEPT !.pc = "http", !.attempt = 0]
    /\ UNCHANGED <<svc, th, calls, progressLog, evaluation_progress, db, pct, fx>>

\* a loop that sleeps and goes round again after every failed attempt
MayRetryAlways(attempt) == attempt < MaxRetries

\* if attempt < max_retries - 1: sleep and try again; else: raise
MayRetry(attempt) == attempt < MaxRetries - 1

\* one round of the loop of _make_api_call_with_retry: the POST succeeds
\* and its JSON body is returned, or raises a RequestException (retried after
\* a sleep of 2^attempt seconds, re-raised on the last attempt), or raises
\* something else
LLMAttempt ==
    /\ llm.pc = "http"
    /\ llm.attempt < MaxRetries
    /\ \/ \E body \in Bodies :
            llm' = [llm EXCEPT !.posts = @ + 1, !.response = body,
                               !.pc = "parse"]
       \/ llm' = IF MayRetry(llm.attempt)
                 THEN [llm EXCEPT !.posts = @ + 1,
                                  !.sleeps = Append(@, 2 ^ llm.attempt),
                                  !.attempt = @ + 1]
                 ELSE [llm EXCEPT !.posts = @ + 1, !.pc = "except",
                                  !.exc = "RequestException"]
       \/ llm' = [llm EXCEPT !.posts = @ + 1, !.pc = "except",
                             !.exc = "OtherError"]
    /\ UNCHANGED <<svc, th, calls, progressLog, evaluation_progress, db, pct, fx>>

\* return self._parse_evaluation_response(response, name_a, name_b)
LLMParse ==
    /\ llm.pc = "parse"
    /\ \E w \in {"A", "B"} :
          llm' = [llm EXCEPT !.pc = "returned",
                     !.result = ParseEvaluationResponse(llm.response, llm.args, w)]
    /\ UNCHANGED <<svc, th, calls, progressLog, evaluation_progress, db, pct, fx>>

\* the except clause of evaluate_submissions: the fallback result
LLMExcept ==
    /\ llm.pc = "except"
    /\ \E w \in {"A", "B"} :
          llm' = IF Catches(llm.exc)
                 THEN [llm EXCEPT !.pc = "returned",
                                  !.result = FallbackEvaluation(w)]
                 ELSE [llm EXCEPT !.pc = "raised"]
    /\ UNCHANGED <<svc, th, calls, progressLog, evaluation_progress, db, pct, fx>>

-----------------------------------------------------------------------------
(* Frame extraction (backend/services/frame_extraction_service.py) *)

\* A decoded video is the list of its frames; a frame is named by its 0-based
\* temporal index in the decoded video.  Python lists are sequences here, so
\* the element at Python index i of a list is At(list, i).
Frames(n) == [k \in 1..n |-> k - 1]
At(list, i) == list[i + 1]
Range(list) == {list[k] : k \in 1..Len(list)}
Abs(x) == IF x < 0 THEN 0 - x ELSE x

\* if len(frames) <= 9 in extract_key_frames
ShortVideo == 9
\* min(...) > 5 in the fill loop
FillGap == 5
\* num_frames: int = 8
DefaultNumFrames == 8

\* the values _calculate_interactivity_score can take, up to their order
Scores == 0..2

NoFx == [pc |-> "idle", entry |-> "none", n |-> 0, num_frames |-> 0,
         scored |-> FALSE, scores |-> <<>>, order |-> <<>>,
         selected_indices |-> <<>>, selected_frames |-> <<>>, out |-> <<>>]

\* a slice that keeps the first frame
SkipNone(frames) == frames

\* frames[1:]
SkipFirst(frames) == SubSeq(frames, 2, Len(frames))

\* the selector's early return taken on the count of the frames that remain
\* after the first, compared with num_frames + 1
ReturnsAllOnRemaining(frames, num_frames) == Len(frames) - 1 <= num_frames + 1

\* if len(frames) <= num_frames + 1 (frames still holds the first frame)
ReturnsAll(frames, num_frames) == Len(frames) <= num_frames + 1

\* frame_scores.sort(key=lambda x: x[0], reverse=True): the Python indices of
\* the scored frames, highest score first; the sort is stable, so frames of
\* equal score keep their temporal order
SortByScore(scores) ==
    LET L == Len(scores)
        Before(i, j) == \/ At(scores, i) > At(scores, j)
                        \/ At(scores, i) = At(scores, j) /\ i < j
        Rank(i) == Cardinality({j \in 0..(L - 1) : Before(j, i)})
    IN  [p \in 1..L |-> CHOOSE i \in 0..(L - 1) : Rank(i) = p - 1]

\* a spacing test that lets a frame at exactly the distance d through
FarFromInclusive(idx, selected_indices, d) ==
    \A k \in 1..Len(selected_indices) : Abs(idx - selected_indices[k]) >= d

\* min(abs(idx - si) for si in selected_indices) > d
FarFrom(idx, selected_indices, d) ==
    \A k \in 1..Len(selected_indices) : Abs(idx - selected_indices[k]) > d

\* the loop over frame_scores: it stops once num_frames frames are accepted
\* and accepts a frame when none is accepted yet or when it is more than
\* len(frames) // (num_frames * 2) away from every accepted one
RECURSIVE Greedy(_, _, _, _, _, _)
Greedy(order, p, frames, num_frames, selected_indices, selected_frames) ==
    IF p > Len(order) \/ Len(selected_indices) >= num_frames
    THEN [indices |-> selected_indices, frames |-> selected_frames]
    ELSE LET idx == order[p]
         IN  IF \/ selected_indices = <<>>
                \/ FarFrom(idx, selected_indices,
                           Len(frames) \div (num_frames * 2))
             THEN Greedy(order, p + 1, frames, num_frames,
                         Append(selected_indices, idx),
                         Append(selected_frames, At(frames, idx)))
             ELSE Greedy(order, p + 1, frames, num_frames,
                         selected_indices, selected_frames)

\* list.sort() of a list of distinct integers
SortAsc(list) ==
    [p \in 1..Len(list) |->
        CHOOSE x \in Range(list) :
            Cardinality({y \in Range(list) : y < x}) = p - 1]

\* the while loop that fills up to num_frames: each round sorts
\* selected_indices in place (selected_frames stays as it is) and appends the
\* first frame not yet selected that is more than 5 away from every selected
\* one; the loop ends when there is none
RECURSIVE Fill(_, _, _, _)
Fill(frames, num_frames, selected_indices, selected_frames) ==
    IF ~(Len(selected_frames) < num_frames /\ Len(selected_frames) < Len(frames))
    THEN [indices |-> selected_indices, frames |-> selected_frames]
    ELSE LET sorted == SortAsc(selected_indices)
             gaps == {i \in 0..(Len(frames) - 1) :
                         /\ i \notin Range(sorted)
                         /\ (sorted = <<>> \/ FarFrom(i, sorted, FillGap))}
         IN  IF gaps = {}
             THEN [indices |-> sorted, frames |-> selected_frames]
             ELSE LET i == CHOOSE i \in gaps : \A j \in gaps : i <= j
                  IN  Fill(frames, num_frames, Append(sorted, i),
                           Append(selected_frames, At(frames, i)))

\* indexed_frames = [(selected_indices[i], selected_frames[i]) ...], sorted by
\* its first component; the frames of the sorted pairs
SortedByIndex(selected_indices, selected_frames) ==
    LET n == Len(selected_frames)
        Rank(k) == Cardinality({j \in 1..n :
                                   selected_indices[j] < selected_indices[k]})
    IN  [p \in 1..n |-> selected_frames[CHOOSE k \in 1..n : Rank(k) = p - 1]]

\* extract_key_frames after decoding: a video of at most 9 frames gives all
\* its frames but the first, a longer one goes to the selector.  One path is
\* saved for each frame, in the same order, so the list of paths is told by
\* the list of frames.
ExtractKeyFrames ==
    /\ fx.pc = "extract"
    /\ fx' = IF fx.n <= ShortVideo
             THEN [fx EXCEPT !.pc = "done", !.out = SkipFirst(Frames(fx.n))]
             ELSE [fx EXCEPT !.pc = "select"]
    /\ UNCHANGED <<svc, th, calls, progressLog, evaluation_progress, db, pct, llm>>

\* _select_interactive_frames up to the sort: the early return, or the first
\* frame is dropped and every remaining frame is scored
SelectScore ==
    /\ fx.pc = "select"
    /\ IF ReturnsAll(Frames(fx.n), fx.num_frames)
       THEN fx' = [fx EXCEPT !.pc = "done", !.out = SkipFirst(Frames(fx.n))]
       ELSE \E scores \in [1..Len(SkipFirst(Frames(fx.n))) -> Scores] :
               fx' = [fx EXCEPT !.pc = "scored", !.scored = TRUE,
                                !.scores = scores,
                                !.order = SortByScore(scores)]
    /\ UNCHANGED <<svc, th, calls, progressLog, evaluation_progress, db, pct, llm>>

\* the greedy loop over the frames in descending score order
SelectGreedy ==
    /\ fx.pc = "scored"
    /\ LET g == Greedy(fx.order, 1, SkipFirst(Frames(fx.n)), fx.num_frames,
                       <<>>, <<>>)
       IN  fx' = [fx EXCEPT !.pc = "greedy", !.selected_indices = g.indices,
                            !.selected_frames = g.frames]
    /\ UNCHANGED <<svc, th, calls, progressLog, evaluation_progress, db, pct, llm>>

\* the fill loop, the final sort and the return
SelectFill ==
    /\ fx.pc = "greedy"
    /\ LET f == Fill(SkipFirst(Frames(fx.n)), fx.num_frames,
                     fx.selected_indices, fx.selected_frames)
       IN  fx' = [fx EXCEPT !.pc = "done", !.selected_indices = f.indices,
                            !.selected_frames = f.frames,
                            !.out = SortedByIndex(f.indices, f.frames)]
    /\ UNCHANGED <<svc, th, calls, progressLog, evaluation_progress, db, pct, llm>>

-----------------------------------------------------------------------------
(* Specifications *)

InitCommon ==
    /\ svc = InitService
    /\ th = [t \in Threads |-> IdleLocals]
    /\ calls = <<>>
    /\ progressLog = <<>>
    /\ evaluation_progress = [k \in {} |-> <<>>]

\* direct calls of rank_submissions on one EvaluationService
Init == InitCommon /\ db = EmptyDb /\ pct = NoPct /\ llm = NoLlm /\ fx = NoFx

Next ==
    \E t \in Threads :
        \/ CallRank(t)
        \/ CallRankAgain(t)
        \/ LoopNext(t)
        \/ InsertStep(t)
        \/ RankFinish(t)

Spec == Init /\ [][Next]_vars

\* caches an EvaluationService can hold when a caller ranks with it: none, or
\* the result of an earlier comparison of the second submission with the first
WarmCaches ==
    {EmptyCache}
    \cup {[k \in {CacheKey(Submission(2, FALSE), Submission(1, FALSE))} |->
              LLMResult(0, w)] : w \in {"A", "B"}}

\* ids a caller's submission dicts can carry: any strings, here some that
\* contain the '_' character
UnderscoreIds == {"a", "b_c", "a_b", "c"}

\* a direct call of rank_submissions on a fresh EvaluationService, with 2 or
\* more submissions whose distinct ids are taken from UnderscoreIds
CallRankIds(t) ==
    /\ t = "t1"
    /\ th[t].pc = "idle"
    /\ th[t].op = "none"
    /\ \E n \in 2..Cardinality(UnderscoreIds) :
         \E ids \in [1..n -> UnderscoreIds] :
            /\ \A i, j \in 1..n : i # j => ids[i] # ids[j]
            /\ RankEnter(t, [th[t] EXCEPT !.op = "rank", !.ncalls = 1], svc,
                         [k \in 1..n |->
                            [Submission(k, FALSE) EXCEPT !.id = ids[k]]],
                         "none")
    /\ UNCHANGED <<calls, db, pct, llm, fx>>

NextIds ==
    \E t \in Threads :
        \/ CallRankIds(t)
        \/ LoopNext(t)
        \/ InsertStep(t)
        \/ RankFinish(t)

\* rank_submissions over submissions whose ids contain '_'
SpecIds == Init /\ [][NextIds]_vars

\* a call of rank_submissions and the same call repeated with the progress
\* callback supplied the other way round
InitTwin ==
    /\ db = EmptyDb /\ pct = NoPct /\ llm = NoLlm /\ fx = NoFx
    /\ th = [t \in Threads |-> IdleLocals]
    /\ calls = <<>>
    /\ progressLog = <<>>
    /\ evaluation_progress = [k \in {} |-> <<>>]
    /\ \E c \in WarmCaches : svc = [InitService EXCEPT !.comparison_cache = c]

NextTwin ==
    \E t \in Threads :
        \/ CallRank(t)
        \/ CallRankTwin(t)
        \/ LoopNext(t)
        \/ InsertStep(t)
        \/ RankFinish(t)

SpecTwin == InitTwin /\ [][NextTwin]_vars

\* MaxSubs submissions
InitApp ==
    /\ InitCommon
    /\ pct = NoPct /\ llm = NoLlm /\ fx = NoFx
    /\ \E n1, n2 \in 1..MaxSubs :
          db = [tasks |-> Tasks,
                submissions |-> [k \in 1..n1 |-> NewRow("T1", k)]
                                \o [k \in 1..n2 |-> NewRow("T2", k)],
                portfolio |-> [e \in {EmailPool[k] : k \in 1..MaxSubs} |-> <<>>]]

NextApp ==
    \E t \in Threads :
        \/ Serial(t) /\ EvalStart(t)
        \/ EvalExtractOne(t)
        \/ EvalRank(t)
        \/ LoopNext(t)
        \/ InsertStep(t)
        \/ RankFinish(t)
        \/ EvalPersist(t)
        \/ EvalExcept(t)

SpecApp == InitApp /\ [][NextApp]_vars

\* evaluate_task and delete requests handled one at a time
NextDel == NextApp \/ DeleteRequest

\* evaluate_task requests handled by the threads of the server as they
\* arrive: nothing makes a request wait for another
NextConc ==
    \E t \in Threads :
        \/ EvalStart(t)
        \/ EvalExtractOne(t)
        \/ EvalRank(t)
        \/ LoopNext(t)
        \/ InsertStep(t)
        \/ RankFinish(t)
        \/ EvalPersist(t)
        \/ EvalExcept(t)

\* every task has ConcSubs submissions when the overlapping requests arrive
InitConc ==
    /\ InitCommon
    /\ pct = NoPct /\ llm = NoLlm /\ fx = NoFx
    /\ db = [tasks |-> Tasks,
             submissions |-> [k \in 1..ConcSubs |-> NewRow("T1", k)]
                             \o [k \in 1..ConcSubs |-> NewRow("T2", k)],
             portfolio |-> [e \in {EmailPool[k] : k \in 1..ConcSubs} |-> <<>>]]

SpecDel == InitConc /\ [][NextDel]_vars

SpecConc == InitConc /\ [][NextConc]_vars

\* the percentile loop over a ranking of any size up to MaxTotal
InitPct ==
    /\ InitCommon
    /\ db = EmptyDb /\ llm = NoLlm /\ fx = NoFx
    /\ \E total \in 1..MaxTotal : pct = [NoPct EXCEPT !.total = total]

NextPct == PercentileStep

SpecPct == InitPct /\ [][NextPct]_vars

\* one call of _select_interactive_frames with up to MaxFrames frames and a
\* target of up to MaxTarget, or one call of extract_key_frames on a video of
\* one of VideoLengths frames with a target of up to MaxTarget or the default
VideoLengths == {0, 1, 2, ShortVideo, ShortVideo + 1}

InitSel ==
    /\ InitCommon
    /\ db = EmptyDb /\ pct = NoPct /\ llm = NoLlm
    /\ \/ \E n \in 0..MaxFrames, num_frames \in 0..MaxTarget :
             fx = [NoFx EXCEPT !.pc = "select", !.entry = "select",
                               !.n = n, !.num_frames = num_frames]
       \/ \E n \in VideoLengths,
             num_frames \in (1..MaxTarget) \cup {DefaultNumFrames} :
             fx = [NoFx EXCEPT !.pc = "extract", !.entry = "extract",
                               !.n = n, !.num_frames = num_frames]

NextSel == ExtractKeyFrames \/ SelectScore \/ SelectGreedy \/ SelectFill

SpecSel == InitSel /\ [][NextSel]_vars

\* one evaluate_submissions call: name_a a string or None, frames lists or None
InitLLM ==
    /\ InitCommon
    /\ db = EmptyDb /\ pct = NoPct /\ fx = NoFx
    /\ \E args \in {"ok", "name_none", "frames_none"} :
          llm = [NoLlm EXCEPT !.pc = "call", !.args = args]

NextLLM == LLMPrepare \/ LLMAttempt \/ LLMParse \/ LLMExcept

SpecLLM == InitLLM /\ [][NextLLM]_vars

-----------------------------------------------------------------------------
(* Properties of rank_submissions (checked under Spec) *)

\* thread t is inside, or has returned from, a rank_submissions call over at
\* least two submissions
InPass(t) == th[t].pc \in {"loop", "insert", "returned"} /\ Len(th[t].input) >= 2
Returned(t) == th[t].pc = "returned" /\ th[t].op = "rank"
FirstCall(t) == th[t].ncalls = 1

\* the comparator invocations of the call in progress (or just returned)
PassCalls(t) == SubSeq(calls, th[t].first + 1, Len(calls))
\* the progress messages of the call in progress (or just returned)
PassMessages(t) == SubSeq(progressLog, th[t].firstmsg + 1, Len(progressLog))

Pairs(n) == (n * (n - 1)) \div 2

\* the invocations of a pass that put the two input positions i, j together
CallsOfPair(t, i, j) ==
    {k \in 1..Len(PassCalls(t)) :
        {PassCalls(t)[k].a, PassCalls(t)[k].b} = {i, j}}

\* 1-based position of input submission k in the returned list (0: absent)
Pos(t, k) ==
    IF \E p \in 1..Len(th[t].ranked) : th[t].ranked[p] = k
    THEN CHOOSE p \in 1..Len(th[t].ranked) : th[t].ranked[p] = k
    ELSE 0

\* comparisons of the pass in which input submission k took part, and those it won
Played(t, k) == {h \in 1..Len(th[t].hist) : k \in {th[t].hist[h].a, th[t].hist[h].b}}
WonBy(h) == IF h.winner = "A" THEN h.a ELSE h.b
Won(t, k) == {h \in Played(t, k) : WonBy(th[t].hist[h]) = k}
SameWinRate(t, i, j) ==
    Cardinality(Won(t, i)) * Cardinality(Played(t, j))
        = Cardinality(Won(t, j)) * Cardinality(Played(t, i))

RankedPercentiles(t) ==
    [p \in 1..Len(th[t].ranked) |-> th[t].subs[th[t].ranked[p]].percentile]

AllAnswered(t, w) ==
    /\ Returned(t) /\ FirstCall(t) /\ Len(th[t].input) = 3
    /\ \A h \in 1..Len(th[t].hist) : th[t].hist[h].winner = w

C4_Permutation ==
    \A t \in Threads :
        (Returned(t) /\ Len(th[t].input) >= 2) =>
            /\ Len(th[t].ranked) = Len(th[t].input)
            /\ \A p \in 1..Len(th[t].ranked) :
                  th[t].ranked[p] \in 1..Len(th[t].input)
            /\ \A k \in 1..Len(th[t].input) :
                  Cardinality({p \in 1..Len(th[t].ranked) : th[t].ranked[p] = k}) = 1
            /\ \A k \in 1..Len(th[t].input) :
                  th[t].subs[k].id = th[t].input[k].id

\* a returned ranking of MaxN submissions that is not the input order
C4_Witness ==
    \E t \in Threads :
        /\ Returned(t) /\ Len(th[t].input) = MaxN
        /\ th[t].ranked # [k \in 1..MaxN |-> k]
        /\ \E k \in 1..MaxN : th[t].left[k] # 0 /\ th[t].right[k] # 0

\* the texts comparison h of the pass has for input submission k
TextsFor(h, k) ==
    IF h.a = k THEN <<h.result.feedback_a, h.result.pros_cons_a>>
    ELSE <<h.result.feedback_b, h.result.pros_cons_b>>

FirstPlayed(t, k) == CHOOSE h \in Played(t, k) : \A g \in Played(t, k) : h <= g
LastPlayed(t, k) == CHOOSE h \in Played(t, k) : \A g \in Played(t, k) : h >= g

Overtook(t, i, j) ==
    \E h \in Won(t, j) :
        LET z == IF th[t].hist[h].a = j THEN th[t].hist[h].b ELSE th[t].hist[h].a
        IN  \/ z = i
            \/ \E g \in Played(t, i) :
                  /\ z \in {th[t].hist[g].a, th[t].hist[g].b}
                  /\ WonBy(th[t].hist[g]) = z

C8_TrivialInputs ==
    \A t \in Threads :
        (Returned(t) /\ Len(th[t].input) <= 1) =>
            /\ PassCalls(t) = <<>>
            /\ PassMessages(t) = <<>>
            /\ th[t].hist = <<>>
            /\ th[t].ranked = [k \in 1..Len(th[t].input) |-> k]
            /\ Len(th[t].subs) = Len(th[t].input)
            /\ \A k \in 1..Len(th[t].input) :
                  /\ th[t].subs[k].percentile = 1000
                  /\ th[t].subs[k].rank = th[t].input[k].rank
                  /\ th[t].subs[k] = [th[t].input[k] EXCEPT !.percentile = 1000]

\* a call with one submission and a progress callback has returned
C8_Witness ==
    \E t \in Threads :
        /\ Returned(t) /\ Len(th[t].input) = 1 /\ th[t].cb # "none"
        /\ th[t].input[1].rank = NoRank
        /\ th[t].subs[1].percentile = 1000

\* C10 (as stated): once the comparator has been invoked for an ordered pair
\* of ids, no later comparison of that ordered pair on the same service, the
\* cache not having been cleared, invokes it again.
C10_InvokedOncePerOrderedPair ==
    \A k, m \in 1..Len(calls) :
        k < m => <<calls[k].ida, calls[k].idb>> # <<calls[m].ida, calls[m].idb>>

\* C10 (amended): once the comparator has returned a result for an ordered
\* pair of ids, every later comparison of that ordered pair on the same
\* service, the cache not having been cleared, returns that stored result and
\* does not invoke the comparator again (an invocation that raised stores
\* nothing).
C10_CachedAfterResult ==
    /\ \A k, m \in 1..Len(calls) :
          (k < m /\ ~calls[k].raised) =>
              <<calls[k].ida, calls[k].idb>> # <<calls[m].ida, calls[m].idb>>
    /\ \A t \in Threads : \A h \in 1..Len(th[t].hist) :
          LET c == th[t].hist[h]
          IN  ~c.invoked =>
                \E k \in 1..Len(calls) :
                    /\ ~calls[k].raised
                    /\ calls[k].ida = th[t].subs[c.a].id
                    /\ calls[k].idb = th[t].subs[c.b].id
                    /\ \E w \in {"A", "B"} : c.result = LLMResult(k, w)

\* a comparison of the second call was answered from the cache
C10_Witness ==
    \E t \in Threads :
        /\ th[t].ncalls = 2
        /\ \E h \in 1..Len(th[t].hist) : ~th[t].hist[h].invoked

\* the 'Comparing ... vs ...' messages of the call in progress
CompareMessages(t) ==
    LET IsCompare(m) == m.msg.kind = "compare"
    IN  SelectSeq(PassMessages(t), IsCompare)

\* C14: when a progress callback is supplied, every comparator invocation of
\* a ranking pass is preceded by a progress message for that comparison that
\* names both submissions and carries a comparison counter; the counter
\* starts at 1 and increases by exactly one per comparison.
C14_ProgressBeforeComparison ==
    \A t \in Threads :
        (/\ th[t].op = "rank" /\ th[t].cb # "none"
         /\ th[t].pc \in {"loop", "insert", "returned", "raised"}
         /\ Len(th[t].input) >= 2) =>
            LET cm == CompareMessages(t)
                begun == Len(th[t].hist) + IF th[t].pc = "raised" THEN 1 ELSE 0
            IN  /\ Len(cm) = begun
                /\ \A i \in 1..Len(cm) :
                      cm[i].msg.n = i /\ cm[i].sink = th[t].cb
                /\ \A i \in 1..Len(th[t].hist) :
                      /\ cm[i].msg.a = th[t].subs[th[t].hist[i].a].name
                      /\ cm[i].msg.b = th[t].subs[th[t].hist[i].b].name
                /\ \A k \in (th[t].first + 1)..Len(calls) :
                      /\ calls[k].msgs \in (th[t].firstmsg + 1)..Len(progressLog)
                      /\ progressLog[calls[k].msgs].msg
                            = Message("compare", th[t].subs[calls[k].a].name,
                                      th[t].subs[calls[k].b].name,
                                      progressLog[calls[k].msgs].msg.n, 0)
                      /\ \A j \in (th[t].first + 1)..(k - 1) :
                            calls[j].msgs < calls[k].msgs

\* a second call with a callback has returned after three or more
\* comparisons, some answered from the cache and some by the comparator
C14_Witness ==
    \E t \in Threads :
        /\ Returned(t) /\ th[t].cb # "none" /\ th[t].ncalls = 2
        /\ Len(th[t].hist) >= 3
        /\ Len(PassCalls(t)) >= 1
        /\ \E h \in 1..Len(th[t].hist) : ~th[t].hist[h].invoked
        /\ CompareMessages(t)[Len(th[t].hist)].msg.n = Len(th[t].hist)

\* what a comparator was asked and what it did, invocation by invocation
Answers(cs) == [k \in 1..Len(cs) |-> <<cs[k].ida, cs[k].idb, cs[k].out, cs[k].n>>]

\* thread t's repeated call, made with the callback the other way round, is over
TwinDone(t) ==
    /\ th[t].twin.pc # "none"
    /\ th[t].pc \in {"returned", "raised"}

\* C15 (checked under SpecTwin): for the same input submissions, the same
\* comparator answers and the same initial cache, rank_submissions returns the
\* same order, percentiles, feedback and pros_cons (or raises at the same
\* comparison) and leaves the same cache contents, whether or not a progress
\* callback is supplied.
C15_CallbackHasNoEffect ==
    \A t \in Threads :
        TwinDone(t) =>
            /\ th[t].pc = th[t].twin.pc
            /\ th[t].ranked = th[t].twin.ranked
            /\ \A k \in 1..Len(th[t].input) :
                  /\ th[t].subs[k].percentile = th[t].twin.subs[k].percentile
                  /\ th[t].subs[k].feedback = th[t].twin.subs[k].feedback
                  /\ th[t].subs[k].pros_cons = th[t].twin.subs[k].pros_cons
            /\ th[t].subs = th[t].twin.subs
            /\ svc.comparison_cache = th[t].twin.cache
            /\ Answers(PassCalls(t)) = Answers(th[t].twin.script)

\* a call with a callback and its repetition without one have both returned
\* a ranking of three or more submissions, one comparison answered from the
\* cache the service started with
C15_Witness ==
    \E t \in Threads :
        /\ TwinDone(t) /\ th[t].pc = "returned"
        /\ Len(th[t].input) >= 3
        /\ th[t].cb = "none" /\ PassMessages(t) = <<>> /\ th[t].firstmsg > 0
        /\ th[t].cache0 # EmptyCache
        /\ \E h \in 1..Len(th[t].hist) : ~th[t].hist[h].invoked
        /\ Len(PassCalls(t)) >= 2

-----------------------------------------------------------------------------
(* Properties of the percentile loop (checked under SpecPct) *)

\* C7 (as stated): the submission at 0-based position idx gets
\* round(100*(total-idx)/total, 1); the first gets 100.0 and percentiles
\* strictly decrease from each position to the next.
C7_StrictlyDecreasing ==
    /\ pct.idx = 1 => pct.cur = 1000
    /\ pct.idx >= 2 => pct.cur < pct.prev

\* C7 (amended): the submission at 0-based position idx gets the tenth
\* nearest to 100*(total-idx)/total; the first gets 100.0 and percentiles never
\* increase from each position to the next, and strictly decrease when total
\* is at most 1000.
C7_NonIncreasing ==
    /\ pct.idx >= 1 =>
          LET exact1000 == 1000 * (pct.total - (pct.idx - 1))
              d == pct.cur * pct.total - exact1000
          IN  /\ 2 * d <= pct.total
              /\ 2 * d >= 0 - pct.total
    /\ pct.idx = 1 => pct.cur = 1000
    /\ pct.idx >= 2 =>
          /\ pct.cur <= pct.prev
          /\ pct.total <= 1000 => pct.cur < pct.prev

\* the loop has assigned two neighbouring positions of a 3-submission
\* ranking: 66.7 after 100.0
C7_Witness == pct.total = 3 /\ pct.idx = 2 /\ pct.cur = 667 /\ pct.prev = 1000

-----------------------------------------------------------------------------
(* Properties of evaluate_task (checked under SpecApp) *)

\* the comparator invocations made on behalf of thread t's request
EvalCalls(t) ==
    LET By(c) == c.t = t
    IN  SelectSeq(calls, By)

ComparatorRaised(t) ==
    /\ th[t].op = "evaluate"
    /\ \E k \in 1..Len(EvalCalls(t)) : EvalCalls(t)[k].raised

NothingRanked(task) ==
    \A r \in 1..Len(db.submissions) :
        db.submissions[r].task_id = task =>
            /\ db.submissions[r].rank = NoRank
            /\ db.submissions[r].percentile = NoPercentile

C9_State ==
    \A t \in Threads :
        ComparatorRaised(t) =>
            /\ th[t].pc \in {"raised", "responded"}
            /\ th[t].exc = "comparator"
            /\ \A k \in 1..Len(EvalCalls(t)) :
                  EvalCalls(t)[k].raised <=> k = Len(EvalCalls(t))
            /\ th[t].ranked = <<>>
            /\ \A k \in 1..Len(th[t].subs) :
                  th[t].subs[k].percentile = th[t].input[k].percentile
            /\ th[t].pc = "raised" => NothingRanked(th[t].task)
            /\ th[t].pc = "responded" => th[t].response = 500

C9_Step ==
    \A t \in Threads :
        (th[t].pc = "raised" /\ th[t].exc = "comparator"
         /\ th'[t].pc = "responded") =>
            /\ th'[t].response = 500
            /\ NothingRanked(th[t].task)'

\* C9: when the comparator raises during rank_submissions the exception leaves
\* rank_submissions at once (the comparator is not invoked again), the call has
\* assigned no percentile to any submission and returned no ranking, and
\* evaluate_task answers 500 leaving every submission of the task without
\* rank and without percentile in the database.
C9_RaisePersistsNothing == []C9_State /\ [][C9_Step]_vars

\* a request on a task that an earlier request had ranked was answered 500
\* after the comparator raised, and the task's rows carry no rank
C9_Witness ==
    \E t \in Threads :
        /\ ComparatorRaised(t)
        /\ th[t].pc = "responded" /\ th[t].response = 500
        /\ \E k \in 1..Len(th[t].input) : th[t].input[k].rank # NoRank
        /\ NothingRanked(th[t].task)

\* thread t's request has entered rank_submissions
Ranking(t) ==
    /\ th[t].op = "evaluate"
    /\ th[t].ncalls = 1
    /\ th[t].pc \in {"loop", "insert", "returned", "raised"}

\* the result r was obtained by invocation k of the comparator
ResultOf(r, k) == \E w \in {"A", "B"} : r = LLMResult(k, w)

\* C11: when evaluate_task requests are handled one at a time, every request
\* empties the comparison cache after re-extracting the frames and before
\* ranking: every comparison of its ranking is answered by a comparator
\* invocation made after the re-extraction, on the re-extracted frames, and
\* while it ranks the cache holds no older result.
C11_NoStaleResult ==
    \A t \in Threads :
        Ranking(t) =>
            /\ \A h \in 1..Len(th[t].hist) :
                  LET c == th[t].hist[h]
                  IN  /\ c.invoked
                      /\ \E k \in (th[t].first + 1)..Len(calls) :
                            /\ ResultOf(c.result, k)
                            /\ calls[k].t = t
                            /\ calls[k].frames_a = th[t].subs[c.a].key_frames
                            /\ calls[k].frames_b = th[t].subs[c.b].key_frames
            /\ th[t].pc \in {"loop", "insert"} =>
                  \A key \in DOMAIN svc.comparison_cache :
                      \E k \in (th[t].first + 1)..Len(calls) :
                          ResultOf(svc.comparison_cache[key], k)

\* a second request on a task that was ranked before has ranked it again,
\* on frames extracted a second time
C11_Witness ==
    \E t \in Threads :
        /\ Ranking(t) /\ th[t].pc = "returned"
        /\ th[t].first > 0
        /\ \E k \in 1..th[t].first :
              /\ ~calls[k].raised
              /\ calls[k].ida = th[t].subs[th[t].hist[1].a].id
              /\ calls[k].idb = th[t].subs[th[t].hist[1].b].id
        /\ th[t].subs[1].key_frames[2] = 2
-----------------------------------------------------------------------------
(* Properties of LLMService.evaluate_submissions (checked under SpecLLM) *)

\* C12: evaluate_submissions never raises, whatever the HTTP calls do and
\* whatever body the provider returns: it always returns a result that has the
\* fields winner, feedback_a, feedback_b, pros_cons_a and pros_cons_b, with
\* winner equal to 'A' or 'B'.
C12_AlwaysValidResult ==
    /\ llm.pc # "raised"
    /\ llm.pc = "returned" =>
          /\ RequiredFields \subseteq DOMAIN llm.result
          /\ llm.result.winner \in {"A", "B"}
-----------------------------------------------------------------------------
(* Properties of overlapping evaluate_task requests (checked under SpecConc) *)

\* thread t's request is re-extracting frames, clearing the cache or ranking
InRankingPass(t) ==
    /\ th[t].op = "evaluate"
    /\ th[t].pc \in {"extract", "loop", "insert"}

\* C13: ranking passes are serialized per task: while one evaluate_task
\* request for a task is re-extracting frames, clearing the cache or ranking,
\* no second request for the same task performs any of these steps.
C13_SerializedPerTask ==
    \A t, u \in Threads :
        (t # u /\ InRankingPass(t) /\ InRankingPass(u)) =>
            th[t].task # th[u].task
-----------------------------------------------------------------------------
(* Properties of the frame selection (checked under SpecSel) *)

SelectorReturned == fx.pc = "done" /\ fx.entry = "select"
Remaining == SkipFirst(Frames(fx.n))

\* C16: for every input length, every target count and every assignment of
\* scores, the frames _select_interactive_frames returns are in strictly
\* increasing temporal index (so no frame is returned twice).
C16_TemporalOrder ==
    fx.pc = "done" =>
        \A p \in 1..(Len(fx.out) - 1) : fx.out[p] < fx.out[p + 1]

\* C17: whenever more than target_count + 1 frames remain after discarding the
\* first frame, _select_interactive_frames returns exactly target_count
\* frames, for every assignment of scores.
C17_ExactlyTargetCount ==
    (SelectorReturned /\ Len(Remaining) > fx.num_frames + 1) =>
        Len(fx.out) = fx.num_frames

\* C18 (as stated): if, after discarding the first frame, the number of
\* remaining frames is at most target_count + 1, the selector returns all
\* remaining frames, unmodified and in temporal order, without scoring any.
C18_AllWhenRemainingAtMostTargetPlusOne ==
    (SelectorReturned /\ Len(Remaining) <= fx.num_frames + 1) =>
        fx.out = Remaining /\ ~fx.scored

\* C18 (amended): if the number of frames, the first one included, is at most
\* target_count + 1 (that is, at most target_count frames remain after
\* discarding the first), the selector returns all remaining frames,
\* unmodified and in temporal order, without scoring any; with more frames it
\* scores the remaining ones and returns at most target_count of them.
C18_AllWhenCountAtMostTargetPlusOne ==
    SelectorReturned =>
        IF fx.n <= fx.num_frames + 1
        THEN fx.out = Remaining /\ ~fx.scored
        ELSE fx.scored /\ Len(fx.out) <= fx.num_frames

\* the selector returned without scoring the 3 frames that remain of 4, the
\* target being 3
C18_Witness ==
    /\ SelectorReturned /\ fx.n = 4 /\ fx.num_frames = 3
    /\ fx.out = <<1, 2, 3>> /\ ~fx.scored

\* C19: the first frame of the decoded sequence is never among the selected
\* frames, for every input length (0 and 1 included), on both paths of
\* extract_key_frames and on both paths of _select_interactive_frames; what
\* is selected are frames that follow it.
C19_FirstFrameDiscarded ==
    fx.pc = "done" =>
        /\ 0 \notin Range(fx.out)
        /\ Range(fx.out) \subseteq 1..(fx.n - 1)
        /\ fx.n <= 1 => fx.out = <<>>

\* extract_key_frames sent a video of more than 9 frames through the
\* selector, which scored the frames and selected the second frame
C19_Witness ==
    /\ fx.pc = "done" /\ fx.entry = "extract" /\ fx.scored
    /\ fx.n > ShortVideo
    /\ Len(fx.out) = fx.num_frames
    /\ fx.out[1] = 1

\* C20: for every video length and every num_frames >= 1, extract_key_frames
\* returns at most num_frames frame paths.
C20_AtMostNumFrames ==
    (fx.pc = "done" /\ fx.entry = "extract" /\ fx.num_frames >= 1) =>
        Len(fx.out) <= fx.num_frames
\* 1-based place of the Python index idx in the list order
PlaceIn(order, idx) == CHOOSE p \in 1..Len(order) : order[p] = idx

\* the frames the greedy loop had accepted when it came to place p of order
AcceptedBefore(order, selected_indices, p) ==
    {idx \in Range(selected_indices) : PlaceIn(order, idx) < p}

\* floor(remaining_count / (2 * target_count))
MinSpacing == Len(Remaining) \div (2 * fx.num_frames)

\* C21: in the greedy phase of _select_interactive_frames the frames are
\* considered in descending score order, and a frame is accepted exactly
\* when fewer than target_count frames are accepted so far and its temporal
\* index differs by more than floor(remaining_count / (2*target_count)) from
\* every frame accepted before it; hence any two greedily accepted frames are
\* more than that distance apart.
C21_GreedyAcceptance ==
    fx.pc = "greedy" =>
        /\ Range(fx.order) = 0..(Len(Remaining) - 1)
        /\ \A p, q \in 1..Len(fx.order) :
              p < q => At(fx.scores, fx.order[p]) >= At(fx.scores, fx.order[q])
        /\ Range(fx.selected_indices) \subseteq Range(fx.order)
        /\ \A k, m \in 1..Len(fx.selected_indices) :
              k < m => PlaceIn(fx.order, fx.selected_indices[k])
                          < PlaceIn(fx.order, fx.selected_indices[m])
        /\ \A p \in 1..Len(fx.order) :
              LET earlier == AcceptedBefore(fx.order, fx.selected_indices, p)
              IN  fx.order[p] \in Range(fx.selected_indices)
                    <=> /\ Cardinality(earlier) < fx.num_frames
                        /\ \A a \in earlier : Abs(fx.order[p] - a) > MinSpacing
        /\ \A a, b \in Range(fx.selected_indices) :
              a # b => Abs(a - b) > MinSpacing

\* the greedy loop, with a minimum spacing of 1, has accepted two frames and
\* passed over a higher-scoring frame that was too close to the first
C21_Witness ==
    /\ fx.pc = "greedy" /\ fx.num_frames >= 2
    /\ MinSpacing >= 1
    /\ Len(fx.selected_indices) >= 2
    /\ \E p \in 1..Len(fx.order) :
          /\ fx.order[p] \notin Range(fx.selected_indices)
          /\ p < PlaceIn(fx.order, fx.selected_indices[2])
          /\ At(fx.scores, fx.order[p])
                > At(fx.scores, fx.selected_indices[2])

-----------------------------------------------------------------------------
(* The returned order against the judgments of the pass (Spec) *)

\* the submission a comparison of the pass decided against
LostBy(h) == IF h.winner = "A" THEN h.b ELSE h.a

\* C25: the returned order is consistent with every judgment made in the
\* pass: for every comparison performed during rank_submissions, the
\* submission the comparator declared the winner appears before the loser in
\* the returned sequence, for every N and every sequence of comparator answers.
C25_WinnerBeforeLoser ==
    \A t \in Threads :
        Returned(t) =>
            \A h \in 1..Len(th[t].hist) :
                LET c == th[t].hist[h]
                IN  /\ Pos(t, WonBy(c)) >= 1
                    /\ Pos(t, WonBy(c)) < Pos(t, LostBy(c))

\* a returned pass over 4 submissions with 5 comparisons, some won by the
\* newcomer and some by the node it met
C25_Witness ==
    \E t \in Threads :
        /\ Returned(t) /\ Len(th[t].input) = 4 /\ Len(th[t].hist) = 5
        /\ \E g, h \in 1..Len(th[t].hist) :
              th[t].hist[g].winner = "A" /\ th[t].hist[h].winner = "B"

\* the unordered pair of input positions a comparison put together
PairOf(c) == {c.a, c.b}

\* the comparisons of the pass of thread t, the one that raised included
Comparisons(t) ==
    [h \in 1..Len(th[t].hist) |-> PairOf(th[t].hist[h])]
    \o (IF th[t].pc = "raised" /\ th[t].exc = "comparator"
        THEN <<PairOf(calls[Len(calls)])>> ELSE <<>>)

\* C26: in one rank_submissions pass over N >= 2 submissions with distinct
\* ids, no unordered pair of submissions is compared more than once, every
\* submission takes part in at least one comparison, and the number of
\* comparisons is at least N-1 and at most N*(N-1)/2.
C26_PairsOnceAndAllCompared ==
    \A t \in Threads :
        (th[t].op = "rank" /\ Len(th[t].input) >= 2) =>
            LET N == Len(th[t].input)
                cmp == Comparisons(t)
            IN  /\ \A g \in 1..Len(cmp) :
                      /\ Cardinality(cmp[g]) = 2
                      /\ cmp[g] \subseteq 1..N
                /\ \A g, h \in 1..Len(cmp) : g < h => cmp[g] # cmp[h]
                /\ 2 * Len(cmp) <= N * (N - 1)
                /\ Returned(t) =>
                      /\ Len(cmp) >= N - 1
                      /\ \A k \in 1..N : \E h \in 1..Len(cmp) : k \in cmp[h]

\* a returned pass over 4 submissions that made 4 comparisons, more than
\* N-1 and fewer than all 6 pairs
C26_Witness ==
    \E t \in Threads :
        /\ Returned(t)
        /\ Len(th[t].input) = 4
        /\ Len(Comparisons(t)) = 4

\* thread t is in, or back from, the second call, the first having returned
SecondAfterReturned(t) ==
    th[t].op = "rank" /\ th[t].ncalls = 2 /\ th[t].twin.pc = "returned"

\* C28: calling rank_submissions a second time with the same submissions in
\* the same input order, without clearing the comparison cache in between,
\* makes no comparator invocation and returns the same order, percentiles,
\* feedback and pros_cons as the first call.
C28_SecondCallFromCache ==
    \A t \in Threads :
        SecondAfterReturned(t) =>
            /\ PassCalls(t) = <<>>
            /\ \A h \in 1..Len(th[t].hist) : ~th[t].hist[h].invoked
            /\ th[t].pc # "raised"
            /\ Returned(t) =>
                  /\ th[t].ranked = th[t].twin.ranked
                  /\ DOMAIN th[t].subs = DOMAIN th[t].twin.subs
                  /\ \A k \in DOMAIN th[t].subs :
                        /\ th[t].subs[k].id = th[t].twin.subs[k].id
                        /\ th[t].subs[k].percentile = th[t].twin.subs[k].percentile
                        /\ th[t].subs[k].feedback = th[t].twin.subs[k].feedback
                        /\ th[t].subs[k].pros_cons = th[t].twin.subs[k].pros_cons

\* a second call over 4 submissions has returned after 5 comparisons, the
\* first call having reordered the input
C28_Witness ==
    \E t \in Threads :
        /\ SecondAfterReturned(t) /\ Returned(t)
        /\ Len(th[t].input) = 4 /\ Len(th[t].hist) = 5
        /\ th[t].twin.ranked # <<1, 2, 3, 4>>
        /\ th[t].ranked = th[t].twin.ranked

-----------------------------------------------------------------------------
(* The cache key (SpecIds) *)

\* the comparator was invoked on the ordered pair of ids (ida, idb) and
\* returned result
ReturnedFor(ida, idb, result) ==
    \E k \in 1..Len(calls) :
        /\ calls[k].ida = ida /\ calls[k].idb = idb
        /\ ~calls[k].raised
        /\ result = LLMResult(calls[k].n, calls[k].out)

\* C29: two different ordered pairs of submission ids never share a cache
\* entry: a result stored for (a, b) is returned only for a comparison whose
\* role-A id is a and whose role-B id is b, for all string ids (including ids
\* that contain the '_' character).
C29_EntryPerOrderedPair ==
    \A t \in Threads : \A h \in 1..Len(th[t].hist) :
        LET c == th[t].hist[h]
        IN  ReturnedFor(th[t].subs[c.a].id, th[t].subs[c.b].id, c.result)

-----------------------------------------------------------------------------
(* Properties of evaluate_task on a task with too few submissions (SpecApp) *)

\* thread t takes up a request for an existing task that has fewer than 2
\* submissions
StartsOnTooFew(t) ==
    /\ th[t].pc = "idle" /\ th'[t].pc # "idle"
    /\ th'[t].task \in db.tasks
    /\ Len(GetSubmissions(db, th'[t].task)) < 2

\* C23: evaluate_task for a task that has fewer than 2 submissions returns
\* an error and changes nothing: no submission's status, rank, percentile,
\* feedback, pros_cons or key_frames is modified, the comparison cache is not
\* cleared, no comparator call is made and no progress entry is written.
C23_TooFewChangesNothing ==
    [][\A t \in Threads :
          StartsOnTooFew(t) =>
              /\ th'[t].pc = "responded" /\ th'[t].response = 400
              /\ db' = db
              /\ svc' = svc
              /\ calls' = calls
              /\ evaluation_progress' = evaluation_progress
              /\ progressLog' = progressLog]_vars

\* a request refused for a task with one submission, after another task was
\* evaluated: the cache still holds that evaluation's results, the submission
\* is as it was created and the task has no progress entry
C23_Witness ==
    \E t \in Threads :
        /\ th[t].pc = "responded" /\ th[t].response = 400
        /\ Len(GetSubmissions(db, th[t].task)) = 1
        /\ GetSubmissions(db, th[t].task)[1] = NewRow(th[t].task, 1)
        /\ th[t].task \notin DOMAIN evaluation_progress
        /\ svc.comparison_cache # EmptyCache
        /\ calls # <<>>

-----------------------------------------------------------------------------
(* Properties of the retry loop of the provider call (SpecLLM) *)

\* the loop of _make_api_call_with_retry has been left
AfterRetryLoop == llm.posts > 0 /\ llm.pc \in {"parse", "except", "returned", "raised"}

\* C24: _make_api_call_with_retry makes at most max_retries (3) HTTP attempts,
\* returns the first successful response without any further attempt, sleeps
\* 2^attempt seconds only between attempts and never after the last one, and
\* raises after the last failed attempt, upon which evaluate_submissions
\* returns the fallback result; so every evaluate_submissions call terminates
\* after at most 3 attempts.
C24_BoundedRetry ==
    /\ llm.posts <= 3
    /\ \A k \in 1..Len(llm.sleeps) : llm.sleeps[k] = 2 ^ (k - 1)
    \* inside the loop every attempt so far failed and was followed by a sleep,
    \* and another attempt is due
    /\ llm.pc = "http" =>
          /\ Len(llm.sleeps) = llm.posts
          /\ llm.attempt = llm.posts
          /\ llm.posts < 3
    \* after it there is one sleep fewer than attempts: none after the last
    /\ AfterRetryLoop => Len(llm.sleeps) = llm.posts - 1
    \* a response is that of the last attempt made
    /\ llm.response # NoBody => AfterRetryLoop /\ llm.exc = "none"
    \* the retried error is raised only after the third attempt
    /\ llm.exc = "RequestException" =>
          llm.posts = 3 /\ llm.response = NoBody
    \* and is answered by the fallback result
    /\ (llm.pc = "returned" /\ llm.exc # "none") =>
          \E w \in {"A", "B"} : llm.result = FallbackEvaluation(w)
    /\ llm.pc # "raised"
    \* a call that has not returned can take its next step
    /\ llm.pc \in {"call", "http", "parse", "except"} => ENABLED NextLLM

\* three failed attempts with sleeps of 1 and 2 seconds between them, answered
\* by the fallback result
C24_Witness ==
    /\ llm.pc = "returned"
    /\ llm.posts = 3
    /\ llm.sleeps = <<1, 2>>
    /\ llm.exc = "RequestException"
    /\ \E w \in {"A", "B"} : llm.result = FallbackEvaluation(w)
\* the request of thread t passed validation and has been answered, and no
\* other request for its task is being handled
AnsweredAfterValidation(t) ==
    /\ th[t].op = "evaluate" /\ th[t].pc = "responded"
    /\ th[t].response \in {200, 500}
    /\ \A u \in Threads \ {t} :
          th[u].task = th[t].task => th[u].pc = "responded"

\* C27: after an evaluate_task request that passed validation has returned,
\* with success or with an error, no submission of that task is left in
\* status 'evaluating': each one is 'completed' with a rank and percentile, or
\* is back in a non-evaluating status.
C27_NoneLeftEvaluating ==
    \A t \in Threads :
        AnsweredAfterValidation(t) =>
            \A r \in Range(GetSubmissions(db, th[t].task)) :
                /\ r.status # "evaluating"
                /\ r.status = "completed" =>
                      r.rank # NoRank /\ r.percentile # NoPercentile

-----------------------------------------------------------------------------
(* Applicants' portfolios under evaluations and deletions (SpecDel) *)

\* C30: after any sequence of evaluate_task and delete operations, an
\* applicant's portfolio contains at most one entry per submission:
\* evaluating the same task again does not add a second entry for a
\* submission that already has one.
C30_OneEntryPerSubmission ==
    \A e \in DOMAIN db.portfolio :
        \A i, j \in 1..Len(db.portfolio[e]) :
            i < j => db.portfolio[e][i].submission_id
                        # db.portfolio[e][j].submission_id

-----------------------------------------------------------------------------
(* Overlapping requests for different tasks (SpecConc) *)

\* the request of thread t is inside rank_submissions
InsideRank(t) == th[t].op = "evaluate" /\ th[t].pc \in {"loop", "insert"}

\* thread t takes a step of its ranking pass that emits a progress message
EmitsWhileRanking(t) ==
    InsideRank(t) /\ th'[t] # th[t] /\ Len(progressLog') = Len(progressLog) + 1

\* the message just emitted went to the closure of that task and is what the
\* task's progress entry now shows
RecordedUnder(task) ==
    LET m == progressLog'[Len(progressLog')]
    IN  /\ m.sink = task
        /\ task \in DOMAIN evaluation_progress'
        /\ evaluation_progress'[task].message = m.msg
        /\ \A other \in DOMAIN evaluation_progress \ {task} :
              evaluation_progress'[other] = evaluation_progress[other]

\* a step of another request while thread t is inside rank_submissions
OtherSteps(t) == InsideRank(t) /\ th'[t] = th[t]

C22_MessagesUnderOwnTask ==
    \A t \in Threads : EmitsWhileRanking(t) => RecordedUnder(th[t].task)

C22_CounterNotReset ==
    \A t \in Threads :
        OtherSteps(t) => svc'.comparison_count >= svc.comparison_count

\* C22: when two evaluate_task requests for different tasks overlap, the
\* ranking state of one is not mutated by the other: every progress message
\* emitted while ranking task X is recorded under X's progress entry and never
\* under another task's, and the comparison counter of X's pass is not reset
\* by the other request.
C22_NoCrossTaskMutation ==
    [][(\A t, u \in Threads : t # u => th[t].task # th[u].task)
          => C22_MessagesUnderOwnTask /\ C22_CounterNotReset]_vars
====
